---- MODULE Spec2Model ----
(***************************************************************************)
(* Questionnaire API (src/main.py): an in-memory question store loaded at  *)
(* startup, a Basic-credential gate, GET /questions (filter, sample,       *)
(* shuffle) and POST /questions (append, then best-effort re-serialisation *)
(* of the whole store).  Endpoints are plain `def` handlers, so the        *)
(* framework runs them on a thread pool: the steps of two requests         *)
(* interleave at every access to QUESTIONS_DB and to the file.             *)
(*                                                                         *)
(* Text is modelled as a sequence of chunks (one-character strings for     *)
(* use/subject, whole words for the credential header), so that strip,     *)
(* lower, split and startswith are computed, not assumed.                  *)
(***************************************************************************)
EXTENDS Integers, Sequences, FiniteSets, TLC

VARIABLES QUESTIONS_DB, disk, writeFailed, nposts, pc, req, user, max_id,
          created, df, persisted, response

vars == <<QUESTIONS_DB, disk, writeFailed, nposts, pc, req, user, max_id,
          created, df, persisted, response>>

(***************************************************************************)
(* Bounds of the model                                                     *)
(***************************************************************************)
MaxPosts == 2
MaxHeaderLen == 6

Workers == {"t1", "t2"}

(***************************************************************************)
(* Python values                                                           *)
(***************************************************************************)
None == <<"<None>">>
NaN == <<"<NaN>">>
Space == " "

RECURSIVE lstrip(_)
lstrip(s) ==
  IF s # <<>> /\ Head(s) = Space THEN lstrip(Tail(s)) ELSE s

RECURSIVE rstrip(_)
rstrip(s) ==
  IF s # <<>> /\ s[Len(s)] = Space THEN rstrip(SubSeq(s, 1, Len(s) - 1)) ELSE s

strip(s) == rstrip(lstrip(s))

lower_char(c) ==
  CASE c = "E" -> "e"
    [] c = "M" -> "m"
    [] c = "B" -> "b"
    [] c = "C" -> "c"
    [] OTHER -> c

RECURSIVE lower(_)
lower(s) ==
  IF s = <<>> THEN <<>> ELSE <<lower_char(Head(s))>> \o lower(Tail(s))

HasSep(s, sep) == \E i \in 1..Len(s) : s[i] = sep

FirstSep(s, sep) ==
  CHOOSE i \in 1..Len(s) : s[i] = sep /\ \A j \in 1..(i - 1) : s[j] # sep

RECURSIVE split(_, _)
split(s, sep) ==
  IF HasSep(s, sep)
  THEN <<SubSeq(s, 1, FirstSep(s, sep) - 1)>>
         \o split(SubSeq(s, FirstSep(s, sep) + 1, Len(s)), sep)
  ELSE <<s>>

Range(s) == {s[i] : i \in 1..Len(s)}

(***************************************************************************)
(* Static configuration                                                    *)
(***************************************************************************)
USERS ==
  (<<"alice">> :> <<"wonderland">>) @@ (<<"bob">> :> <<"builder">>)
    @@ (<<"clementine">> :> <<"mandarine">>)

ADMIN_PASSWORD == <<"4dm1N">>

AllowedCounts == {5, 10, 20}

HTTP_401_UNAUTHORIZED == 401

(***************************************************************************)
(* Credential gate                                                         *)
(***************************************************************************)
NoHeader == <<"<absent>">>
NoUser == [ok |-> FALSE, username |-> <<>>, is_admin |-> FALSE, status_code |-> 0]

Unauthorized ==
  [ok |-> FALSE, username |-> <<>>, is_admin |-> FALSE,
   status_code |-> HTTP_401_UNAUTHORIZED]

Identity(username, is_admin) ==
  [ok |-> TRUE, username |-> username, is_admin |-> is_admin, status_code |-> 0]

startswith_basic(authorization) ==
  Len(authorization) >= 2 /\ authorization[1] = "Basic" /\ authorization[2] = Space

\* mutation of creds_of: the payload is not stripped
creds_of_unstripped(authorization) ==
  SubSeq(authorization, 3, Len(authorization))

creds_of(authorization) == strip(SubSeq(authorization, 3, Len(authorization)))

users_get(username) ==
  IF username \in DOMAIN USERS THEN USERS[username] ELSE None

check_password(username, password) ==
  IF password = ADMIN_PASSWORD
  THEN Identity(username, TRUE)
  ELSE LET expected == users_get(username)
       IN IF expected # None /\ expected # <<>> /\ expected = password
          THEN Identity(username, FALSE)
          ELSE Unauthorized

get_current_user(authorization) ==
  IF authorization = NoHeader \/ authorization = <<>>
  THEN Unauthorized
  ELSE IF ~startswith_basic(authorization)
  THEN Unauthorized
  ELSE LET creds == creds_of(authorization)
       IN IF ~HasSep(creds, ":")
          THEN Unauthorized
          ELSE check_password(SubSeq(creds, 1, FirstSep(creds, ":") - 1),
                              SubSeq(creds, FirstSep(creds, ":") + 1, Len(creds)))

(***************************************************************************)
(* Questions and the tabular dataset (the .xlsx file)                      *)
(***************************************************************************)
Question(qid, question, subject, correct, use, rA, rB, rC, rD) ==
  [qid |-> qid, question |-> question, subject |-> subject,
   correct |-> correct, use |-> use, responseA |-> rA, responseB |-> rB,
   responseC |-> rC, responseD |-> rD]

NoQuestion == Question(0, <<>>, <<>>, <<>>, <<>>, <<>>, <<>>, <<>>, <<>>)

\* A frame is an ordered list of column names and an ordered list of rows,
\* each row holding one cell per column.
Frame(columns, rows) == [kind |-> "xlsx", columns |-> columns, rows |-> rows]

NoFile == [kind |-> "absent", columns |-> <<>>, rows |-> <<>>]
Unreadable == [kind |-> "unreadable", columns |-> <<>>, rows |-> <<>>]
NoFrame == [kind |-> "none", columns |-> <<>>, rows |-> <<>>]

\* str(c).strip().lower() on the column names that occur
normalize_column(c) ==
  CASE c = "responseA" -> "responsea"
    [] c = "responseB" -> "responseb"
    [] c = "responseC" -> "responsec"
    [] c = "responseD" -> "responsed"
    [] c = " Question" -> "question"
    [] c = "Use " -> "use"
    [] OTHER -> c

fillna(cell) == IF cell = NaN THEN <<>> ELSE cell

\* row.get(name, "") on a row of a frame whose columns were normalised
row_get(columns, row, name) ==
  IF \E i \in 1..Len(columns) : normalize_column(columns[i]) = name
  THEN fillna(row[CHOOSE i \in 1..Len(columns) :
                    normalize_column(columns[i]) = name])
  ELSE <<>>

\* mutation of row_qid: the 0-based row index is used as it is
row_qid_zero_based(i) == i - 1

row_qid(i) == (i - 1) + 1

load_row(columns, row, i) ==
  Question(row_qid(i),
           row_get(columns, row, "question"), row_get(columns, row, "subject"),
           row_get(columns, row, "correct"), row_get(columns, row, "use"),
           row_get(columns, row, "responsea"), row_get(columns, row, "responseb"),
           row_get(columns, row, "responsec"), row_get(columns, row, "responsed"))

\* the rows of a frame as Questions; i is the 1-based row position, so the
\* 0-based index of the code is i - 1
load_questions_from_path_or_url(frame) ==
  [i \in 1..Len(frame.rows) |-> load_row(frame.columns, frame.rows[i], i)]

PersistColumns ==
  <<"question", "subject", "correct", "use",
    "responseA", "responseB", "responseC", "responseD">>

frame_row(q) ==
  <<q.question, q.subject, q.correct, q.use,
    q.responseA, q.responseB, q.responseC, q.responseD>>

\* pd.DataFrame([... for q in QUESTIONS_DB]): one row per Question, no qid
build_frame(db) ==
  Frame(PersistColumns, [i \in 1..Len(db) |-> frame_row(db[i])])

\* a None or empty value is written as an empty cell, read back as NaN
excel_cell(v) == IF v = None \/ v = <<>> THEN NaN ELSE v

to_excel(frame) ==
  Frame(frame.columns,
        [i \in 1..Len(frame.rows) |->
           [j \in 1..Len(frame.rows[i]) |-> excel_cell(frame.rows[i][j])]])

(***************************************************************************)
(* Selection                                                               *)
(***************************************************************************)
RECURSIVE flatten_parts(_)
flatten_parts(parts) ==
  IF parts = <<>> THEN <<>>
  ELSE (IF strip(Head(parts)) # <<>> THEN <<strip(Head(parts))>> ELSE <<>>)
         \o flatten_parts(Tail(parts))

RECURSIVE extend_subjects(_)
extend_subjects(subject) ==
  IF subject = <<>> THEN <<>>
  ELSE flatten_parts(split(Head(subject), ",")) \o extend_subjects(Tail(subject))

RECURSIVE lower_all(_)
lower_all(ss) ==
  IF ss = <<>> THEN <<>> ELSE <<lower(Head(ss))>> \o lower_all(Tail(ss))

normalized_subjects(subject) == lower_all(extend_subjects(subject))

question_matches(q, use, subjects) ==
  /\ lower(strip(q.use)) = lower(strip(use))
  /\ lower(strip(q.subject)) \in Range(subjects)

RECURSIVE filter_matches(_, _, _)
filter_matches(db, use, subjects) ==
  IF db = <<>> THEN <<>>
  ELSE (IF question_matches(Head(db), use, subjects) THEN <<Head(db)>> ELSE <<>>)
         \o filter_matches(Tail(db), use, subjects)

\* mutation of count_allowed: a range check instead of the fixed set
count_allowed_range(count) == count \in 1..20

count_allowed(count) == count \in AllowedCounts

\* mutation of enough_matches: off by one, count matches are refused too
enough_matches_strict(n, count) == n > count

enough_matches(n, count) == ~(n < count)

RECURSIVE SortedSeq(_)
SortedSeq(S) ==
  IF S = {} THEN <<>>
  ELSE LET m == CHOOSE x \in S : \A y \in S : x <= y
       IN <<m>> \o SortedSeq(S \ {m})

\* random.sample(matches, k): k distinct positions of matches.  The order
\* in which sample lists them is subsumed by the shuffle that follows.
random_sample(matches, k) ==
  {[i \in 1..k |-> matches[SortedSeq(S)[i]]] :
     S \in {T \in SUBSET (1..Len(matches)) : Cardinality(T) = k}}

\* random.shuffle(selected): any permutation of selected
random_shuffle(selected) ==
  {[i \in 1..Len(selected) |-> selected[p[i]]] :
     p \in Permutations(1..Len(selected))}

pretty_json(content, status_code) ==
  [status_code |-> status_code, body |-> content]

HTTPException(status_code) == [status_code |-> status_code, body |-> <<>>]

NoResponse == [status_code |-> 0, body |-> <<>>]

\* every response get_questions can give for these arguments on store db
get_questions_responses(db, use, subject, count) ==
  IF ~count_allowed(count) THEN {HTTPException(400)}
  ELSE LET matches == filter_matches(db, use, normalized_subjects(subject))
       IN IF matches = <<>> THEN {HTTPException(404)}
          ELSE IF ~enough_matches(Len(matches), count) THEN {HTTPException(400)}
          ELSE UNION {{pretty_json(selected, 200) :
                         selected \in random_shuffle(sampled)} :
                      sampled \in random_sample(matches, count)}

(***************************************************************************)
(* Append                                                                  *)
(***************************************************************************)
max_qid(db) ==
  IF db = <<>> THEN 0
  ELSE CHOOSE m \in {db[i].qid : i \in 1..Len(db)} :
         \A i \in 1..Len(db) : db[i].qid <= m

\* mutation of next_qid: the increment is forgotten
next_qid_same(max) == max

next_qid(max) == max + 1

\* new_question.dict() with the assigned qid
make_created(new_question, max) ==
  [new_question EXCEPT !.qid = next_qid(max)]

path_exists(file) == file.kind # "absent"

\* mutation of has_admin: any authenticated identity passes
has_admin_any(u) == u.ok

\* line 174: user.get("is_admin")
has_admin(u) == u.is_admin

\* mutation of response_after_failed_write: the exception reaches the client
response_after_failed_write_raises(q) == HTTPException(500)

\* lines 201-204: an exception of the write is swallowed and the handler
\* returns the created Question all the same
response_after_failed_write(q) == pretty_json(q, 201)

(***************************************************************************)
(* Inputs: the source file found at startup and the requests clients send  *)
(***************************************************************************)
SourceColumns ==
  <<" Question", "subject", "Use ", "correct",
    "responseA", "responseB", "responseC", "responseD", "remark">>

\* use " Ex", subject "Ma ": matches use=ex, subject=ma after normalisation
RowMath ==
  <<<<"q0">>, <<"M", "a", Space>>, <<Space, "E", "x">>, <<"A">>,
    <<"yes">>, <<"no">>, NaN, NaN, NaN>>

\* use "ex", subject "c": the use of RowMath, a subject no request names
RowChem ==
  <<<<"q0">>, <<"c">>, <<"e", "x">>, <<"B">>,
    <<"yes">>, <<"no">>, NaN, NaN, NaN>>

\* use "t", subject "ma": the subject of RowMath under another use
RowTraining ==
  <<<<"q0">>, <<"m", "a">>, <<"t">>, <<"B">>,
    <<"yes">>, <<"no">>, NaN, NaN, NaN>>

\* the files found at startup: an empty sheet, one with no row for use=ex
\* and subject=ma, and one with three such rows among others
SourceFrames ==
  {Frame(SourceColumns, <<>>),
   Frame(SourceColumns, <<RowChem, RowTraining>>),
   Frame(SourceColumns, <<RowMath, RowChem, RowMath, RowMath>>)}

\* QuestionIn bodies: the optional responses not supplied are None.  The
\* k-th POST carries a question text of its own, k letters long; the first
\* two are on subject "ma", the later ones on subject "c".
RECURSIVE QuestionText(_)
QuestionText(k) == IF k = 0 THEN <<>> ELSE <<"q">> \o QuestionText(k - 1)

NewQuestion(k) ==
  Question(0, QuestionText(k), IF k <= 2 THEN <<"m", "a">> ELSE <<"c">>,
           <<"A">>, <<"E", "x">>, <<"yes">>, None, None, None)

BasicHeader(username, password) ==
  <<"Basic", Space>> \o username \o <<":">> \o password

GetHeaders == {NoHeader, BasicHeader(<<"alice">>, <<"wonderland">>)}

Headers ==
  {NoHeader,
   BasicHeader(<<"alice">>, <<"wonderland">>),
   BasicHeader(<<"alice">>, <<"4dm1N">>),
   BasicHeader(<<"alice">>, <<"alice">>),
   <<"alice", Space, "alice", ":", "wonderland">>}

QueryUses == {<<"E", "x", Space>>, <<"t">>}

QuerySubjects ==
  {<<<<"b", ",", Space, "M", "a">>>>,
   <<<<",", Space>>, <<"C", Space>>>>}

QueryCounts == {1, 5, 10}

NoReq ==
  [method |-> "NONE", authorization |-> NoHeader, use |-> <<>>,
   subject |-> <<>>, count |-> 0, new_question |-> NoQuestion]

GetReq(h, use, subject, count) ==
  [method |-> "GET", authorization |-> h, use |-> use, subject |-> subject,
   count |-> count, new_question |-> NoQuestion]

PostReq(h, q) ==
  [method |-> "POST", authorization |-> h, use |-> <<>>, subject |-> <<>>,
   count |-> 0, new_question |-> q]

GetRequests ==
  {GetReq(h, u, s, c) :
     h \in GetHeaders, u \in QueryUses, s \in QuerySubjects, c \in QueryCounts}

PostRequests(k) == {PostReq(h, NewQuestion(k)) : h \in Headers}

\* words a credential header is made of
HeaderWords == {"Basic", Space, ":", "alice", "wonderland", "4dm1N"}

AllHeaders ==
  {NoHeader} \cup UNION {[1..n -> HeaderWords] : n \in 0..MaxHeaderLen}

(***************************************************************************)
(* Startup: QUESTIONS_DB is loaded once; a failed load leaves it empty     *)
(***************************************************************************)
Idle ==
  /\ writeFailed = FALSE
  /\ nposts = 0
  /\ pc = [w \in Workers |-> "idle"]
  /\ req = [w \in Workers |-> NoReq]
  /\ user = [w \in Workers |-> NoUser]
  /\ max_id = [w \in Workers |-> 0]
  /\ created = [w \in Workers |-> NoQuestion]
  /\ df = [w \in Workers |-> NoFrame]
  /\ persisted = [w \in Workers |-> "none"]
  /\ response = [w \in Workers |-> NoResponse]

Init ==
  /\ Idle
  /\ \E frame \in SourceFrames :
       \/ \* the local file exists and is read
          /\ disk = frame
          /\ QUESTIONS_DB = load_questions_from_path_or_url(frame)
       \/ \* no local file: the default URL is fetched
          /\ disk = NoFile
          /\ QUESTIONS_DB = load_questions_from_path_or_url(frame)
       \/ \* no local file and the fetch fails
          /\ disk = NoFile
          /\ QUESTIONS_DB = <<>>
       \/ \* the local file exists and cannot be parsed
          /\ disk = Unreadable
          /\ QUESTIONS_DB = <<>>

(***************************************************************************)
(* Requests                                                                *)
(***************************************************************************)
GetInFlight == \E w \in Workers : req[w].method = "GET"

\* a request arrives and is given to a free worker thread, which resolves
\* Depends(get_current_user) before it calls the handler.  GETs only read,
\* so one in flight at a time shows all they can see; at most MaxPosts
\* POSTs are sent with an admin credential, the k-th carrying NewQuestion(k).
Dispatch(w, r) ==
  /\ pc[w] = "idle"
  /\ r.method = "GET" => ~GetInFlight
  /\ r.method = "POST" => nposts < MaxPosts
  /\ req' = [req EXCEPT ![w] = r]
  /\ LET u == get_current_user(r.authorization)
     IN /\ nposts' = IF r.method = "POST" /\ u.ok /\ has_admin(u)
                      THEN nposts + 1 ELSE nposts
        /\ IF u.ok
           THEN /\ user' = [user EXCEPT ![w] = u]
                /\ pc' = [pc EXCEPT ![w] = IF r.method = "GET"
                                           THEN "get" ELSE "post"]
                /\ UNCHANGED response
           ELSE /\ response' = [response EXCEPT
                                 ![w] = HTTPException(u.status_code)]
                /\ pc' = [pc EXCEPT ![w] = "done"]
                /\ UNCHANGED user
  /\ UNCHANGED <<QUESTIONS_DB, disk, writeFailed, max_id, created, df, persisted>>

Receive(w) ==
  /\ pc[w] = "idle"
  /\ \E r \in GetRequests \cup PostRequests(nposts + 1) : Dispatch(w, r)

get_questions(w) ==
  /\ pc[w] = "get"
  /\ \E r \in get_questions_responses(QUESTIONS_DB, req[w].use,
                                      req[w].subject, req[w].count) :
       response' = [response EXCEPT ![w] = r]
  /\ pc' = [pc EXCEPT ![w] = "done"]
  /\ UNCHANGED <<QUESTIONS_DB, disk, writeFailed, nposts, req, user, max_id, created,
                 df, persisted>>

\* create_question, lines 174-177: the admin check, then max over the store
create_question_max(w) ==
  /\ pc[w] = "post"
  /\ IF ~has_admin(user[w])
     THEN /\ response' = [response EXCEPT ![w] = HTTPException(403)]
          /\ pc' = [pc EXCEPT ![w] = "done"]
          /\ UNCHANGED max_id
     ELSE /\ max_id' = [max_id EXCEPT ![w] = max_qid(QUESTIONS_DB)]
          /\ pc' = [pc EXCEPT ![w] = "append"]
          /\ UNCHANGED response
  /\ UNCHANGED <<QUESTIONS_DB, disk, writeFailed, nposts, req, user, created, df,
                 persisted>>

\* lines 178-180
create_question_append(w) ==
  /\ pc[w] = "append"
  /\ created' = [created EXCEPT
                   ![w] = make_created(req[w].new_question, max_id[w])]
  /\ QUESTIONS_DB' = Append(QUESTIONS_DB, created'[w])
  /\ pc' = [pc EXCEPT ![w] = "exists"]
  /\ UNCHANGED <<disk, writeFailed, nposts, req, user, max_id, df, persisted, response>>

\* lines 182-184, and line 204 when the path does not exist
create_question_exists(w) ==
  /\ pc[w] = "exists"
  /\ IF path_exists(disk)
     THEN /\ pc' = [pc EXCEPT ![w] = "frame"]
          /\ UNCHANGED <<persisted, response>>
     ELSE /\ persisted' = [persisted EXCEPT ![w] = "skipped"]
          /\ response' = [response EXCEPT ![w] = pretty_json(created[w], 201)]
          /\ pc' = [pc EXCEPT ![w] = "done"]
  /\ UNCHANGED <<QUESTIONS_DB, disk, writeFailed, nposts, req, user, max_id, created, df>>

\* lines 185-199
create_question_frame(w) ==
  /\ pc[w] = "frame"
  /\ df' = [df EXCEPT ![w] = build_frame(QUESTIONS_DB)]
  /\ pc' = [pc EXCEPT ![w] = "write"]
  /\ UNCHANGED <<QUESTIONS_DB, disk, writeFailed, nposts, req, user, max_id, created,
                 persisted, response>>

\* lines 200-204: the write succeeds, or raises and is swallowed (the file
\* is then left as it was, or unreadable)
create_question_write(w) ==
  /\ pc[w] = "write"
  /\ \/ /\ disk' = to_excel(df[w])
        /\ persisted' = [persisted EXCEPT ![w] = "written"]
        /\ response' = [response EXCEPT ![w] = pretty_json(created[w], 201)]
        /\ UNCHANGED writeFailed
     \/ /\ disk' \in {disk, Unreadable}
        /\ persisted' = [persisted EXCEPT ![w] = "failed"]
        /\ response' = [response EXCEPT
                          ![w] = response_after_failed_write(created[w])]
        /\ writeFailed' = TRUE
  /\ pc' = [pc EXCEPT ![w] = "done"]
  /\ UNCHANGED <<QUESTIONS_DB, nposts, req, user, max_id, created, df>>

\* the response is sent and the worker thread is free again
Respond(w) ==
  /\ pc[w] = "done"
  /\ pc' = [pc EXCEPT ![w] = "idle"]
  /\ req' = [req EXCEPT ![w] = NoReq]
  /\ user' = [user EXCEPT ![w] = NoUser]
  /\ max_id' = [max_id EXCEPT ![w] = 0]
  /\ created' = [created EXCEPT ![w] = NoQuestion]
  /\ df' = [df EXCEPT ![w] = NoFrame]
  /\ persisted' = [persisted EXCEPT ![w] = "none"]
  /\ response' = [response EXCEPT ![w] = NoResponse]
  /\ UNCHANGED <<QUESTIONS_DB, disk, writeFailed, nposts>>

OthersIdle(w) == \A v \in Workers \ {w} : pc[v] = "idle"

\* requests served one after the other, none overlapping another
NextSeq ==
  \E w \in Workers :
    \/ OthersIdle(w) /\ Receive(w)
    \/ OthersIdle(w) /\ get_questions(w)
    \/ OthersIdle(w) /\ create_question_max(w)
    \/ OthersIdle(w) /\ create_question_append(w)
    \/ OthersIdle(w) /\ create_question_exists(w)
    \/ OthersIdle(w) /\ create_question_frame(w)
    \/ OthersIdle(w) /\ create_question_write(w)
    \/ OthersIdle(w) /\ Respond(w)

SpecSeq == Init /\ [][NextSeq]_vars

\* the credential gate alone, on every header of up to MaxHeaderLen words,
\* in front of one GET on a store left empty by a failed load
GateWorker == CHOOSE w \in Workers : TRUE

InitGate == Idle /\ disk = NoFile /\ QUESTIONS_DB = <<>>

GateReceive ==
  /\ pc[GateWorker] = "idle"
  /\ \E h \in AllHeaders :
       Dispatch(GateWorker, GetReq(h, <<"e", "x">>, <<<<"m", "a">>>>, 5))

NextGate ==
  \/ GateReceive
  \/ get_questions(GateWorker)
  \/ Respond(GateWorker)

SpecGate == InitGate /\ [][NextGate]_vars

Next ==
  \E w \in Workers :
    \/ Receive(w)
    \/ get_questions(w)
    \/ create_question_max(w)
    \/ create_question_append(w)
    \/ create_question_exists(w)
    \/ create_question_frame(w)
    \/ create_question_write(w)
    \/ Respond(w)

Spec == Init /\ [][Next]_vars

(***************************************************************************)
(* What the specification says, stated independently of the handlers       *)
(***************************************************************************)
DistinctQids(qs) ==
  \A i, j \in 1..Len(qs) : i # j => qs[i].qid # qs[j].qid

LargestQid(db) ==
  CHOOSE k \in {0} \cup {db[i].qid : i \in 1..Len(db)} :
    \A i \in 1..Len(db) : db[i].qid <= k

\* the maximal comma-free pieces of s
CommaParts(s) ==
  {SubSeq(s, i, j) : <<i, j>> \in
     {ij \in (1..(Len(s) + 1)) \X (0..Len(s)) :
        /\ ij[1] <= ij[2] + 1
        /\ \A k \in ij[1]..ij[2] : s[k] # ","
        /\ (ij[1] = 1 \/ s[ij[1] - 1] = ",")
        /\ (ij[2] = Len(s) \/ s[ij[2] + 1] = ",")}}

RequestedSubjects(subject) ==
  {lower(strip(part)) :
     part \in {x \in UNION {CommaParts(subject[k]) : k \in 1..Len(subject)} :
                 strip(x) # <<>>}}

\* q matches a request for use and the subjects requested
Matches(q, use, requested) ==
  /\ lower(strip(q.use)) = lower(strip(use))
  /\ lower(strip(q.subject)) \in requested

MatchPositions(db, use, subject) ==
  LET requested == RequestedSubjects(subject)
  IN {i \in 1..Len(db) : Matches(db[i], use, requested)}

MatchSet(db, use, subject) ==
  {db[i] : i \in MatchPositions(db, use, subject)}

Payload(h) == SubSeq(h, 3, Len(h))

SchemeIsBasic(h) ==
  h # NoHeader /\ Len(h) >= 2 /\ h[1] = "Basic" /\ h[2] = Space

HasColon(p) == \E i \in 1..Len(p) : p[i] = ":"

Colon(p) ==
  CHOOSE i \in 1..Len(p) : p[i] = ":" /\ \A j \in 1..(i - 1) : p[j] # ":"

UsernameOf(p) == SubSeq(p, 1, Colon(p) - 1)
PasswordOf(p) == SubSeq(p, Colon(p) + 1, Len(p))

\* the gate's decision when the credential payload is read as p
Accepted(h, p) ==
  /\ SchemeIsBasic(h)
  /\ HasColon(p)
  /\ \/ PasswordOf(p) = ADMIN_PASSWORD
     \/ /\ UsernameOf(p) \in DOMAIN USERS
        /\ USERS[UsernameOf(p)] = PasswordOf(p)

GateAgrees(w, p) ==
  /\ user[w].ok <=> Accepted(req[w].authorization, p)
  /\ user[w].ok =>
       /\ user[w].username = UsernameOf(p)
       /\ user[w].is_admin = (PasswordOf(p) = ADMIN_PASSWORD)
  /\ ~user[w].ok => response[w].status_code = 401

AdminCredential(h) ==
  Accepted(h, strip(Payload(h))) /\ PasswordOf(strip(Payload(h))) = ADMIN_PASSWORD

UserCredential(h) ==
  Accepted(h, strip(Payload(h))) /\ PasswordOf(strip(Payload(h))) # ADMIN_PASSWORD

Answered(w, method) == pc[w] = "done" /\ req[w].method = method

(***************************************************************************)
(* C1                                                                      *)
(***************************************************************************)
\* C1: whatever the interleaving of concurrent admin POSTs, all Questions
\* of the store have pairwise distinct qids.
C1_UniqueQids == DistinctQids(QUESTIONS_DB)

(***************************************************************************)
(* C2                                                                      *)
(***************************************************************************)
C2_AppendStep ==
  \A w \in Workers :
    pc[w] = "append" /\ pc'[w] # "append" =>
      /\ Len(QUESTIONS_DB') = Len(QUESTIONS_DB) + 1
      /\ SubSeq(QUESTIONS_DB', 1, Len(QUESTIONS_DB)) = QUESTIONS_DB
      /\ LET q == QUESTIONS_DB'[Len(QUESTIONS_DB')]
         IN /\ q.qid = IF QUESTIONS_DB = <<>> THEN 1
                       ELSE LargestQid(QUESTIONS_DB) + 1
            /\ q = [req[w].new_question EXCEPT !.qid = q.qid]

C2_Response ==
  \A w \in Workers :
    Answered(w, "POST") /\ response[w].status_code = 201 =>
      response[w].body = QUESTIONS_DB[Len(QUESTIONS_DB)]

\* C2: an append that overlaps no other request adds exactly one Question
\* at the end of the store, with qid = largest qid + 1 (1 on an empty
\* store), leaves the earlier entries as they were, and the 201 response
\* carries that stored Question.
C2_AppendAssignsNextQid == []C2_Response /\ [][C2_AppendStep]_vars

C2_Witness ==
  \E w \in Workers :
    /\ Answered(w, "POST")
    /\ response[w].status_code = 201
    /\ Len(QUESTIONS_DB) >= 2
    /\ response[w].body.qid = Len(QUESTIONS_DB)

(***************************************************************************)
(* C3                                                                      *)
(***************************************************************************)
C3_ResultFromMatches(w) ==
  LET b == response[w].body
  IN /\ Len(b) = req[w].count
     /\ \A i \in 1..Len(b) :
          b[i] \in MatchSet(QUESTIONS_DB, req[w].use, req[w].subject)

\* C3: a successful GET returns exactly count Questions, all with distinct
\* qids, each a member of the match set, whatever sample and shuffle choose.
C3_SampleDistinct ==
  \A w \in Workers :
    Answered(w, "GET") /\ response[w].status_code = 200 =>
      C3_ResultFromMatches(w) /\ DistinctQids(response[w].body)

(***************************************************************************)
(* C4                                                                      *)
(***************************************************************************)
C4_Step ==
  \A w \in Workers :
    pc[w] = "get" /\ pc'[w] = "done" /\ req[w].count \in {5, 10, 20} =>
      LET n == Cardinality(MatchPositions(QUESTIONS_DB, req[w].use,
                                          req[w].subject))
          r == response'[w]
      IN /\ n = 0 => r.status_code = 404
         /\ n >= 1 /\ n < req[w].count => r.status_code = 400
         /\ n >= req[w].count =>
              r.status_code = 200 /\ Len(r.body) = req[w].count

\* C4: with an allowed count, GET fails with 404 when nothing matches, with
\* 400 when 1 <= matches < count, and otherwise succeeds with exactly count
\* Questions: never a shorter result.
C4_AllOrNothing == [][C4_Step]_vars

C4_Witness ==
  \E w \in Workers :
    /\ Answered(w, "GET")
    /\ nposts = 0
    /\ req[w].count = 5
    /\ response[w].status_code = 400
    /\ MatchPositions(QUESTIONS_DB, req[w].use, req[w].subject) # {}

(***************************************************************************)
(* C5                                                                      *)
(***************************************************************************)
\* C5: a GET by a valid identity whose count is not 5, 10 or 20 fails with
\* 400 however many Questions match, none included.
C5_BadCountIs400 ==
  \A w \in Workers :
    Answered(w, "GET") /\ user[w].ok /\ req[w].count \notin {5, 10, 20} =>
      response[w].status_code = 400

C5_Witness ==
  \E w \in Workers :
    /\ Answered(w, "GET")
    /\ user[w].ok
    /\ req[w].count = 1
    /\ response[w].status_code = 400
    /\ nposts = 0
    /\ MatchPositions(QUESTIONS_DB, req[w].use, req[w].subject) = {}

(***************************************************************************)
(* C6                                                                      *)
(***************************************************************************)
\* C6 as stated: the gate decides on the payload as sent, the username
\* being the text before its first colon and the password the text after.
C6_GateOnRawPayload ==
  \A w \in Workers :
    pc[w] # "idle" => GateAgrees(w, Payload(req[w].authorization))

\* C6: the gate decides on the payload trimmed of leading and trailing
\* whitespace: it succeeds iff the header starts with "Basic ", the trimmed
\* payload has a colon and the password after its first colon is the admin
\* password or the stored password of the username before it; the identity
\* carries that username, isAdmin iff the password is the admin password;
\* every other header gives 401.
C6_GateOnTrimmedPayload ==
  \A w \in Workers :
    pc[w] # "idle" => GateAgrees(w, strip(Payload(req[w].authorization)))

C6_Witness ==
  \E w \in Workers :
    /\ pc[w] # "idle"
    /\ user[w].ok
    /\ ~user[w].is_admin
    /\ Payload(req[w].authorization) # strip(Payload(req[w].authorization))

(***************************************************************************)
(* C7                                                                      *)
(***************************************************************************)
C7_Step ==
  (QUESTIONS_DB' # QUESTIONS_DB \/ disk' # disk) =>
    \E w \in Workers :
      /\ pc'[w] # pc[w]
      /\ req[w].method = "POST"
      /\ AdminCredential(req[w].authorization)

C7_Rejected ==
  \A w \in Workers :
    Answered(w, "POST") =>
      /\ UserCredential(req[w].authorization) => response[w].status_code = 403
      /\ (~UserCredential(req[w].authorization)
            /\ ~AdminCredential(req[w].authorization)) =>
           response[w].status_code = 401

\* C7: the store and the file change only in a step of a POST sent with an
\* admin credential; a POST with a valid non-admin credential answers 403,
\* one with a missing, malformed or wrong credential 401.
C7_OnlyAdminPostWrites == []C7_Rejected /\ [][C7_Step]_vars

C7_Witness ==
  \E w, v \in Workers :
    /\ Answered(w, "POST")
    /\ response[w].status_code = 403
    /\ Answered(v, "GET")

(***************************************************************************)
(* C8                                                                      *)
(***************************************************************************)
\* C8: an admin POST answers 201 with the created Question, which is in the
\* store, whether the write succeeded, failed or was skipped; a write is
\* attempted only after the append and only when the path exists.
C8_BestEffortPersistence ==
  \A w \in Workers :
    /\ (Answered(w, "POST") /\ AdminCredential(req[w].authorization)) =>
         /\ response[w].status_code = 201
         /\ response[w].body = created[w]
         /\ created[w] \in Range(QUESTIONS_DB)
         /\ persisted[w] \in {"written", "failed", "skipped"}
    /\ (pc[w] \in {"frame", "write"} \/ persisted[w] \in {"written", "failed"}) =>
         created[w] \in Range(QUESTIONS_DB) /\ path_exists(disk)
    /\ persisted[w] = "skipped" => ~path_exists(disk)

C8_Witness ==
  \E w \in Workers :
    /\ Answered(w, "POST")
    /\ persisted[w] = "failed"
    /\ response[w].status_code = 201
    /\ created[w] \in Range(QUESTIONS_DB)

(***************************************************************************)
(* C9                                                                      *)
(***************************************************************************)
\* C9: with no POST in flight, the path there from the start and no failed
\* write, the file holds one row per Question of the store, in store order.
C9_FileMirrorsStore ==
  ((\A w \in Workers : req[w].method # "POST")
     /\ ~writeFailed /\ disk.kind = "xlsx") =>
    /\ Len(disk.rows) = Len(QUESTIONS_DB)
    /\ \A i \in 1..Len(QUESTIONS_DB) :
         load_row(disk.columns, disk.rows[i], i).question
           = QUESTIONS_DB[i].question

(***************************************************************************)
(* C10                                                                     *)
(***************************************************************************)
\* C10: with requests served one after the other, the Question at position
\* i has qid i, so writing the store and loading it again gives every
\* Question the qid it had.
C10_QidIsPosition ==
  /\ \A i \in 1..Len(QUESTIONS_DB) : QUESTIONS_DB[i].qid = i
  /\ LET again == load_questions_from_path_or_url(
                    to_excel(build_frame(QUESTIONS_DB)))
     IN /\ Len(again) = Len(QUESTIONS_DB)
        /\ \A i \in 1..Len(QUESTIONS_DB) : again[i].qid = QUESTIONS_DB[i].qid

C10_Witness ==
  /\ \A w \in Workers : pc[w] = "idle"
  /\ nposts >= 2
  /\ Len(QUESTIONS_DB) >= 4
  /\ disk.kind = "xlsx"
  /\ Len(disk.rows) = Len(QUESTIONS_DB)

====
